---- MODULE Spec2Model ----
(***************************************************************************)
(* Model of query/predicate.go of obeattie/sase: the operator predicate,   *)
(* its three-valued Evaluate, QueryText and usedAliases.                   *)
(*                                                                         *)
(* One candidate match is modelled: a predicate built once (pred), the     *)
(* candidate's CapturedEvents, which only grows (caps), and what the       *)
(* caller has seen returned so far (memo, out).                            *)
(***************************************************************************)
EXTENDS Integers, Sequences, FiniteSets, TLC

VARIABLES pred, caps, memo, out

vars == <<pred, caps, memo, out>>

----------------------------------------------------------------------------
(* Bounds *)

\* float64 operands are the numbers 1..MaxNum, plus NaN
MaxNum == 2
\* a candidate captures at most this many events
MaxCaptured == 2

----------------------------------------------------------------------------
(* Runtime values (Go interface{}): a tag, and the payload of that tag *)

F64(n) == [t |-> "float64", n |-> n, s |-> ""]
NaN == [t |-> "float64", n |-> 0, s |-> "NaN"]
Str(s) == [t |-> "string", n |-> 0, s |-> s]
NoVal == [t |-> "nil", n |-> 0, s |-> ""]

Numbers == {F64(n) : n \in 1..MaxNum}
Scalars == Numbers \cup {NaN, Str("s")}

IsFloat64(v) == v.t = "float64"
IsNaN(v) == v.t = "float64" /\ v.s = "NaN"

\* reflect.DeepEqual on two scalars held in interface{}: same dynamic type
\* and ==, so a float64 NaN is unequal to everything, itself included
DeepEqual(x, y) ==
    /\ x.t = y.t
    /\ ~IsNaN(x)
    /\ ~IsNaN(y)
    /\ x.n = y.n
    /\ x.s = y.s

\* Go's float64 comparisons: any comparison with a NaN is false
FloatGt(x, y) == ~IsNaN(x) /\ ~IsNaN(y) /\ x.n > y.n
FloatLt(x, y) == ~IsNaN(x) /\ ~IsNaN(y) /\ x.n < y.n
FloatGe(x, y) == ~IsNaN(x) /\ ~IsNaN(y) /\ x.n >= y.n
FloatLe(x, y) == ~IsNaN(x) /\ ~IsNaN(y) /\ x.n <= y.n

----------------------------------------------------------------------------
(* Events, CapturedEvents and value expressions (the collaborators) *)

Aliases == {"a", "b"}

\* an event either carries field x or does not
Events == {[hasX |-> TRUE, x |-> v] : v \in Numbers \cup {Str("s")}}
            \cup {[hasX |-> FALSE, x |-> NoVal]}

Bound(evs) == {evs[i].alias : i \in 1..Len(evs)}

NoErr == "nil"
ErrEventNotFound == "ErrEventNotFound"
ErrNilOperand == "Left and right must not be nil"
ErrNoField == "no such field"
ErrMalformed == "malformed expression"

\* the value expressions: nil (no operand), a literal, alias.x, or an
\* expression that cannot be resolved against any binding
nilValue == [kind |-> "nil", alias |-> "", lit |-> NoVal]
Literal(v) == [kind |-> "literal", alias |-> "", lit |-> v]
Attr(a) == [kind |-> "attribute", alias |-> a, lit |-> NoVal]
Malformed == [kind |-> "malformed", alias |-> "", lit |-> NoVal]

Values == {nilValue, Malformed} \cup {Literal(v) : v \in Scalars}
            \cup {Attr(a) : a \in Aliases}

Lookup(evs, a) ==
    (CHOOSE i \in 1..Len(evs) : evs[i].alias = a)

\* value.Value(evs): the resolved value and the error
Value(v, evs) ==
    IF v.kind = "literal" THEN [val |-> v.lit, err |-> NoErr]
    ELSE IF v.kind = "malformed" THEN [val |-> NoVal, err |-> ErrMalformed]
    ELSE IF v.alias \notin Bound(evs) THEN [val |-> NoVal, err |-> ErrEventNotFound]
    ELSE LET e == evs[Lookup(evs, v.alias)].event IN
         IF e.hasX THEN [val |-> e.x, err |-> NoErr]
         ELSE [val |-> NoVal, err |-> ErrNoField]

ScalarText(x) ==
    IF IsNaN(x) THEN <<"N", "a", "N">>
    ELSE IF x.t = "float64" THEN <<ToString(x.n)>>
    ELSE <<"'", x.s, "'">>

\* value.QueryText()
ValueText(v) ==
    IF v.kind = "literal" THEN ScalarText(v.lit)
    ELSE IF v.kind = "malformed" THEN <<"?">>
    ELSE <<v.alias, ".", "x">>

\* value.usedAliases()
ValueAliases(v) ==
    IF v.kind = "attribute" THEN <<v.alias>> ELSE <<>>

----------------------------------------------------------------------------
(* predicate.go *)

PredicateResultPositive == 0
PredicateResultNegative == 1
PredicateResultUncertain == 2

opEq == 0
opNe == 1
opGt == 2
opLt == 3
opGe == 4
opLe == 5

\* op is a uint8: the six operators and one value outside the closed set
Ops == opEq..(opLe + 1)

Predicates == [left : Values, right : Values, op : Ops]

\* faulty variant: the left operand's error is dropped
leftRightVals_IgnoreLeftErr(evs, left, right) ==
    IF left = nilValue \/ right = nilValue
    THEN [l |-> NoVal, r |-> NoVal, err |-> ErrNilOperand]
    ELSE LET lv == Value(left, evs)
             rv == Value(right, evs) IN
         IF rv.err # NoErr THEN [l |-> NoVal, r |-> NoVal, err |-> rv.err]
         ELSE [l |-> lv.val, r |-> rv.val, err |-> NoErr]

leftRightVals(evs, left, right) ==
    IF left = nilValue \/ right = nilValue
    THEN [l |-> NoVal, r |-> NoVal, err |-> ErrNilOperand]
    ELSE LET lv == Value(left, evs) IN
         IF lv.err # NoErr THEN [l |-> NoVal, r |-> NoVal, err |-> lv.err]
         ELSE LET rv == Value(right, evs) IN
              IF rv.err # NoErr THEN [l |-> NoVal, r |-> NoVal, err |-> rv.err]
              ELSE [l |-> lv.val, r |-> rv.val, err |-> NoErr]

\* what Evaluate returns, and the diagnostic it logs ("" for none)
Ret(res, log) == [res |-> res, log |-> log]
Bool(b) == IF b THEN PredicateResultPositive ELSE PredicateResultNegative

\* faulty variant: an unbound alias terminates the match
ErrResult_NotFoundNegative(err) ==
    Ret(PredicateResultNegative, "Could not evaluate left/right")

\* faulty variant: every resolution error keeps the match pending
ErrResult_AlwaysUncertain(err) ==
    Ret(PredicateResultUncertain, "")

\* Evaluate: the error branch
ErrResult(err) ==
    IF err = ErrEventNotFound THEN Ret(PredicateResultUncertain, "")
    ELSE Ret(PredicateResultNegative, "Could not evaluate left/right")

\* faulty variant: != without the negation
EvalNe_NotNegated(l, r) == Ret(Bool(DeepEqual(l, r)), "")

\* Evaluate: case opEq, case opNe
EvalEq(l, r) == Ret(Bool(DeepEqual(l, r)), "")
EvalNe(l, r) == Ret(Bool(~DeepEqual(l, r)), "")

\* faulty variant: > without the float64 type assertions
EvalGt_NoTypeCheck(l, r) == Ret(Bool(l.n > r.n), "")

\* faulty variant: >= compared as >
EvalGe_Strict(l, r) ==
    IF IsFloat64(l) /\ IsFloat64(r) THEN Ret(Bool(FloatGt(l, r)), "")
    ELSE Ret(PredicateResultNegative, "Could not compare ge for non-float64s")

\* Evaluate: case opGt, opLt, opGe, opLe
EvalGt(l, r) ==
    IF IsFloat64(l) /\ IsFloat64(r) THEN Ret(Bool(FloatGt(l, r)), "")
    ELSE Ret(PredicateResultNegative, "Could not compare gt for non-float64s")
EvalLt(l, r) ==
    IF IsFloat64(l) /\ IsFloat64(r) THEN Ret(Bool(FloatLt(l, r)), "")
    ELSE Ret(PredicateResultNegative, "Could not compare lt for non-float64s")
EvalGe(l, r) ==
    IF IsFloat64(l) /\ IsFloat64(r) THEN Ret(Bool(FloatGe(l, r)), "")
    ELSE Ret(PredicateResultNegative, "Could not compare ge for non-float64s")
EvalLe(l, r) ==
    IF IsFloat64(l) /\ IsFloat64(r) THEN Ret(Bool(FloatLe(l, r)), "")
    ELSE Ret(PredicateResultNegative, "Could not compare le for non-float64s")

\* Evaluate: switch p.op
Dispatch(o, l, r) ==
    CASE o = opEq -> EvalEq(l, r)
      [] o = opNe -> EvalNe(l, r)
      [] o = opGt -> EvalGt(l, r)
      [] o = opLt -> EvalLt(l, r)
      [] o = opGe -> EvalGe(l, r)
      [] o = opLe -> EvalLe(l, r)
      [] OTHER -> Ret(PredicateResultNegative, "Unhandled op")

\* faulty variant: only the newest captured event is consulted
Evaluate_NewestEventOnly(p, evs) ==
    LET new == IF evs = <<>> THEN evs ELSE <<evs[Len(evs)]>>
        v == leftRightVals(new, p.left, p.right) IN
    IF v.err # NoErr THEN ErrResult(v.err) ELSE Dispatch(p.op, v.l, v.r)

Evaluate(p, evs) ==
    LET v == leftRightVals(evs, p.left, p.right) IN
    IF v.err # NoErr THEN ErrResult(v.err) ELSE Dispatch(p.op, v.l, v.r)

\* QueryText: switch p.op (no default: an unhandled op writes nothing)
OpSymbol(o) ==
    CASE o = opEq -> <<"=", "=">>
      [] o = opNe -> <<"!", "=">>
      [] o = opGt -> <<">">>
      [] o = opLt -> <<"<">>
      [] o = opGe -> <<">", "=">>
      [] o = opLe -> <<"<", "=">>
      [] OTHER -> <<>>

\* faulty variant: no space written before the right operand
QueryText_NoSpace(p) ==
    LET buf0 == IF p.left # nilValue THEN ValueText(p.left) ELSE <<>>
        buf1 == buf0 \o <<" ">>
        buf2 == buf1 \o OpSymbol(p.op)
    IN  IF p.right # nilValue THEN buf2 \o ValueText(p.right)
        ELSE buf2

QueryText(p) ==
    LET buf0 == IF p.left # nilValue THEN ValueText(p.left) ELSE <<>>
        buf1 == buf0 \o <<" ">>
        buf2 == buf1 \o OpSymbol(p.op)
    IN  IF p.right # nilValue THEN (buf2 \o <<" ">>) \o ValueText(p.right)
        ELSE buf2

\* faulty variant: the right operand's aliases come first
usedAliases_RightFirst(p) ==
    LET result0 == <<>>
        result1 == IF p.right # nilValue THEN result0 \o ValueAliases(p.right)
                   ELSE result0
    IN  IF p.left # nilValue THEN result1 \o ValueAliases(p.left)
        ELSE result1

usedAliases(p) ==
    LET result0 == <<>>
        result1 == IF p.left # nilValue THEN result0 \o ValueAliases(p.left)
                   ELSE result0
    IN  IF p.right # nilValue THEN result1 \o ValueAliases(p.right)
        ELSE result1

----------------------------------------------------------------------------
(* The candidate: its predicate, its growing binding, and the calls made *)

NotCalled == [res |-> 255, log |-> "not called"]
NoOut == [call |-> "none", text |-> <<>>, aliases |-> <<>>]

\* the binding snapshot after k captures
Snapshot(k) == SubSeq(caps, 1, k)

Init ==
    /\ pred \in Predicates
    /\ caps = <<>>
    /\ memo = [k \in 0..MaxCaptured |-> NotCalled]
    /\ out = NoOut

\* the automaton binds one new alias: a new snapshot, the old ones kept
Capture(a, e) ==
    /\ Len(caps) < MaxCaptured
    /\ a \notin Bound(caps)
    /\ caps' = Append(caps, [alias |-> a, event |-> e])
    /\ UNCHANGED <<pred, memo, out>>

\* the automaton evaluates the predicate against one of the snapshots
EvaluateStep(k) ==
    /\ memo' = [memo EXCEPT ![k] = Evaluate(pred, Snapshot(k))]
    /\ UNCHANGED <<pred, caps, out>>

QueryTextStep ==
    /\ out' = [call |-> "QueryText", text |-> QueryText(pred), aliases |-> <<>>]
    /\ UNCHANGED <<pred, caps, memo>>

usedAliasesStep ==
    /\ out' = [call |-> "usedAliases", text |-> <<>>, aliases |-> usedAliases(pred)]
    /\ UNCHANGED <<pred, caps, memo>>

Next ==
    \/ \E a \in Aliases, e \in Events : Capture(a, e)
    \/ \E k \in 0..Len(caps) : EvaluateStep(k)
    \/ QueryTextStep
    \/ usedAliasesStep

Spec == Init /\ [][Next]_vars

----------------------------------------------------------------------------
(* Properties.  The evaluations the caller has made are the snapshots k    *)
(* with memo[k] set; each property speaks of those.                        *)

Evaluated == {k \in 0..Len(caps) : memo[k] # NotCalled}
Res(k) == memo[k].res

BothGiven == pred.left # nilValue /\ pred.right # nilValue
LeftErr(k) == Value(pred.left, Snapshot(k)).err
RightErr(k) == Value(pred.right, Snapshot(k)).err
LeftVal(k) == Value(pred.left, Snapshot(k)).val
RightVal(k) == Value(pred.right, Snapshot(k)).val
Resolved(k) == BothGiven /\ LeftErr(k) = NoErr /\ RightErr(k) = NoErr

\* C1, as stated: if resolving the left or the right operand fails with
\* "event not found", Evaluate returns Uncertain, whatever the other operand
\* is (nil included) and however it resolves.
C1_EitherNotFoundUncertain ==
    \A k \in Evaluated :
        (\/ pred.left # nilValue /\ LeftErr(k) = ErrEventNotFound
         \/ pred.right # nilValue /\ RightErr(k) = ErrEventNotFound)
        => Res(k) = PredicateResultUncertain

\* C1, amended: with both operands non-nil, if the left operand fails with
\* "event not found", or the left operand resolves and the right one fails
\* with "event not found", Evaluate returns Uncertain, for every operator.
C1_FirstFailureNotFoundUncertain ==
    \A k \in Evaluated :
        (/\ BothGiven
         /\ \/ LeftErr(k) = ErrEventNotFound
            \/ LeftErr(k) = NoErr /\ RightErr(k) = ErrEventNotFound)
        => Res(k) = PredicateResultUncertain

\* C1 witness: with one event captured, the left operand (an attribute of
\* the bound alias) resolved, the right one reads an unbound alias, and an
\* ordering predicate was evaluated to Uncertain.
C1_Witness ==
    \E k \in Evaluated :
        /\ k = 1
        /\ pred.op = opGt
        /\ pred.left.kind = "attribute"
        /\ BothGiven
        /\ LeftErr(k) = NoErr
        /\ RightErr(k) = ErrEventNotFound
        /\ Res(k) = PredicateResultUncertain

\* C2, as stated: whenever every alias in usedAliases(P) is absent from the
\* binding, Evaluate returns Uncertain (predicates reading no alias and
\* predicates with a nil operand included).
AllAliasesAbsent(k) ==
    \A i \in 1..Len(usedAliases(pred)) :
        usedAliases(pred)[i] \notin Bound(Snapshot(k))

C2_AllAbsentUncertain ==
    \A k \in Evaluated :
        AllAliasesAbsent(k) => Res(k) = PredicateResultUncertain

\* C2, amended: for a predicate with both operands non-nil whose left
\* operand reads an alias, or whose left operand resolves and whose right
\* operand reads an alias, Evaluate returns Uncertain whenever every alias
\* in usedAliases(P) is absent from the binding.
C2_AbsentAliasReadUncertain ==
    \A k \in Evaluated :
        (/\ BothGiven
         /\ AllAliasesAbsent(k)
         /\ \/ ValueAliases(pred.left) # <<>>
            \/ LeftErr(k) = NoErr /\ ValueAliases(pred.right) # <<>>)
        => Res(k) = PredicateResultUncertain

\* C2 witness: a.x compared with a literal was evaluated on a non-empty
\* binding that does not bind a, and gave Uncertain.
C2_Witness ==
    \E k \in Evaluated :
        /\ k >= 1
        /\ pred.left = Attr("a")
        /\ pred.right.kind = "literal"
        /\ AllAliasesAbsent(k)
        /\ Res(k) = PredicateResultUncertain

\* C3: when operand resolution fails for a reason other than "event not
\* found" (a nil operand, or the Value call of an operand returning another
\* error: the right operand's Value is called only once the left has
\* resolved), Evaluate returns Negative, for every operator and binding.
OtherFailure(k) ==
    \/ ~BothGiven
    \/ LeftErr(k) \notin {NoErr, ErrEventNotFound}
    \/ LeftErr(k) = NoErr /\ RightErr(k) \notin {NoErr, ErrEventNotFound}

C3_OtherFailureNegative ==
    \A k \in Evaluated :
        OtherFailure(k) => Res(k) = PredicateResultNegative

\* C3 witness: a predicate with a nil right operand was evaluated with its
\* left operand's alias bound, and gave Negative.
C3_Witness ==
    \E k \in Evaluated :
        /\ pred.right = nilValue
        /\ pred.left = Attr("a")
        /\ "a" \in Bound(Snapshot(k))
        /\ Res(k) = PredicateResultNegative

\* the same predicate with another operator, on the same snapshot
WithOp(o, k) == Evaluate([pred EXCEPT !.op = o], Snapshot(k)).res
Swapped(o, k) ==
    Evaluate([left |-> pred.right, right |-> pred.left, op |-> o], Snapshot(k)).res

\* C4, as stated: with both operands resolved, v == v is Positive for any
\* value v; for structurally different values v1 == v2 is Negative and
\* v1 != v2 is Positive, in both operand orders; == and != give opposite
\* results on the same operands.
C4_EqualityReflexive ==
    \A k \in Evaluated :
        Resolved(k) /\ pred.op \in {opEq, opNe} =>
            /\ Res(k) = WithOp(pred.op, k)
            /\ LeftVal(k) = RightVal(k)
                => WithOp(opEq, k) = PredicateResultPositive
            /\ LeftVal(k) # RightVal(k)
                => /\ WithOp(opEq, k) = PredicateResultNegative
                   /\ WithOp(opNe, k) = PredicateResultPositive
                   /\ Swapped(opEq, k) = PredicateResultNegative
                   /\ Swapped(opNe, k) = PredicateResultPositive
            /\ (WithOp(opEq, k) = PredicateResultPositive)
                <=> (WithOp(opNe, k) = PredicateResultNegative)

\* C4, amended: with both operands resolved, v == v is Positive for any
\* value v other than a float64 NaN (NaN == NaN is Negative and NaN != NaN
\* Positive); for structurally different values v1 == v2 is Negative and
\* v1 != v2 is Positive, in both operand orders; == and != give opposite
\* results on the same operands.
C4_EqualityReflexiveExceptNaN ==
    \A k \in Evaluated :
        Resolved(k) /\ pred.op \in {opEq, opNe} =>
            /\ Res(k) = WithOp(pred.op, k)
            /\ LeftVal(k) = RightVal(k) /\ ~IsNaN(LeftVal(k))
                => WithOp(opEq, k) = PredicateResultPositive
            /\ LeftVal(k) = RightVal(k) /\ IsNaN(LeftVal(k))
                => /\ WithOp(opEq, k) = PredicateResultNegative
                   /\ WithOp(opNe, k) = PredicateResultPositive
            /\ LeftVal(k) # RightVal(k)
                => /\ WithOp(opEq, k) = PredicateResultNegative
                   /\ WithOp(opNe, k) = PredicateResultPositive
                   /\ Swapped(opEq, k) = PredicateResultNegative
                   /\ Swapped(opNe, k) = PredicateResultPositive
            /\ (WithOp(opEq, k) = PredicateResultPositive)
                <=> (WithOp(opNe, k) = PredicateResultNegative)

\* C4 witness: a.x == b.x was evaluated to Positive with both aliases bound
\* to events of equal x (scenario 5).
C4_Witness ==
    /\ pred = [left |-> Attr("a"), right |-> Attr("b"), op |-> opEq]
    /\ 2 \in Evaluated
    /\ Resolved(2)
    /\ LeftVal(2) = RightVal(2)
    /\ Res(2) = PredicateResultPositive

\* C5: for >, <, >=, <= with both operands resolved, a non-float64 value on
\* either side gives Negative; Positive is returned only when both values
\* are float64 and the comparison holds.
Ordering == {opGt, opLt, opGe, opLe}
Holds(o, x, y) ==
    CASE o = opGt -> x > y
      [] o = opLt -> x < y
      [] o = opGe -> x >= y
      [] o = opLe -> x <= y

C5_OrderingNeedsNumbers ==
    \A k \in Evaluated :
        Resolved(k) /\ pred.op \in Ordering =>
            /\ ~IsFloat64(LeftVal(k)) \/ ~IsFloat64(RightVal(k))
                => Res(k) = PredicateResultNegative
            /\ Res(k) = PredicateResultPositive
                => /\ IsFloat64(LeftVal(k)) /\ ~IsNaN(LeftVal(k))
                   /\ IsFloat64(RightVal(k)) /\ ~IsNaN(RightVal(k))
                   /\ Holds(pred.op, LeftVal(k).n, RightVal(k).n)
            /\ Res(k) \in {PredicateResultPositive, PredicateResultNegative}

\* C5 witness: a.x > 1 was evaluated to Negative with a bound to an event
\* whose x is a string (scenario 4), the diagnostic logged.
C5_Witness ==
    /\ pred = [left |-> Attr("a"), right |-> Literal(F64(1)), op |-> opGt]
    /\ 1 \in Evaluated
    /\ Resolved(1)
    /\ LeftVal(1) = Str("s")
    /\ memo[1] = Ret(PredicateResultNegative,
                     "Could not compare gt for non-float64s")

\* C6: for two resolved non-NaN float64 operands a and b, exactly one of
\* a > b, a < b, a == b is Positive and the other two are Negative; a >= b
\* is Positive exactly when a > b or a == b is, a <= b exactly when a < b
\* or a == b is.
Pos(o, k) == WithOp(o, k) = PredicateResultPositive

C6_OrderingConsistent ==
    \A k \in Evaluated :
        (/\ Resolved(k)
         /\ IsFloat64(LeftVal(k)) /\ ~IsNaN(LeftVal(k))
         /\ IsFloat64(RightVal(k)) /\ ~IsNaN(RightVal(k))
         /\ pred.op \in Ordering \cup {opEq}) =>
            /\ Res(k) = WithOp(pred.op, k)
            /\ Cardinality({o \in {opGt, opLt, opEq} : Pos(o, k)}) = 1
            /\ \A o \in {opGt, opLt, opEq, opGe, opLe} :
                WithOp(o, k) \in {PredicateResultPositive, PredicateResultNegative}
            /\ Pos(opGe, k) <=> (Pos(opGt, k) \/ Pos(opEq, k))
            /\ Pos(opLe, k) <=> (Pos(opLt, k) \/ Pos(opEq, k))

\* C6 witness: a.x >= 2 was evaluated to Positive with a bound to an event
\* whose x is 2.
C6_Witness ==
    /\ pred = [left |-> Attr("a"), right |-> Literal(F64(2)), op |-> opGe]
    /\ 1 \in Evaluated
    /\ Resolved(1)
    /\ LeftVal(1) = F64(2)
    /\ Res(1) = PredicateResultPositive

\* C7: QueryText of a predicate over one of the six operators is the left
\* operand's text (nothing for a nil left operand), one space, the
\* operator's canonical symbol and, only for a non-nil right operand, one
\* space and the right operand's text; it always contains the symbol, and
\* with a nil right operand it ends with it.
CanonicalSymbol(o) ==
    <<  <<"=", "=">>, <<"!", "=">>, <<">">>, <<"<">>,
        <<">", "=">>, <<"<", "=">>  >>[o + 1]
TextOf(v) == IF v = nilValue THEN <<>> ELSE ValueText(v)

C7_QueryTextShape ==
    out.call = "QueryText" /\ pred.op \in opEq..opLe =>
        LET text == out.text
            lt == Len(TextOf(pred.left))
            sym == CanonicalSymbol(pred.op)
            e == lt + 1 + Len(sym)
        IN  /\ Len(text) >= e
            /\ SubSeq(text, 1, lt) = TextOf(pred.left)
            /\ text[lt + 1] = " "
            /\ SubSeq(text, lt + 2, e) = sym
            /\ \E i \in 1..Len(text) :
                   SubSeq(text, i, i + Len(sym) - 1) = sym
            /\ pred.right = nilValue => Len(text) = e
            /\ pred.right # nilValue =>
                   /\ Len(text) = e + 1 + Len(TextOf(pred.right))
                   /\ text[e + 1] = " "
                   /\ SubSeq(text, e + 2, Len(text)) = TextOf(pred.right)

\* C7 witness: QueryText was called on "a.x >=" with a nil right operand
\* (scenario 6) and returned the left text, a space and the symbol.
C7_Witness ==
    /\ out.call = "QueryText"
    /\ pred = [left |-> Attr("a"), right |-> nilValue, op |-> opGe]
    /\ out.text = <<"a", ".", "x", " ", ">", "=">>

\* C8: usedAliases returns the left operand's alias list followed by the
\* right operand's, duplicates kept; a nil operand contributes nothing, and
\* with both operands nil the result is empty.
AliasesOf(v) == IF v = nilValue THEN <<>> ELSE ValueAliases(v)

C8_UsedAliasesConcat ==
    out.call = "usedAliases" =>
        LET la == AliasesOf(pred.left)
            ra == AliasesOf(pred.right)
        IN  /\ Len(out.aliases) = Len(la) + Len(ra)
            /\ \A i \in 1..Len(la) : out.aliases[i] = la[i]
            /\ \A j \in 1..Len(ra) : out.aliases[Len(la) + j] = ra[j]
            /\ pred.left = nilValue /\ pred.right = nilValue
                => out.aliases = <<>>

\* C8 witness: usedAliases was called on a.x == a.x and returned a twice.
C8_Witness ==
    /\ out.call = "usedAliases"
    /\ pred.left = Attr("a")
    /\ pred.right = Attr("a")
    /\ out.aliases = <<"a", "a">>

\* C9 (Evaluate is a pure function of the predicate and the snapshot) is
\* not expressed here: Evaluate is an operator of its two arguments, so two
\* evaluations on the same arguments agree by definition.

\* C10: along the growing binding of one candidate, once Evaluate has
\* returned Positive or Negative it returns the same on every later
\* snapshot, and once every alias in usedAliases is bound it does not
\* return Uncertain.
C10_DefiniteIsFinal ==
    \A j \in Evaluated, k \in Evaluated :
        /\ j < k /\ Res(j) # PredicateResultUncertain => Res(k) = Res(j)
        /\ (\A i \in 1..Len(usedAliases(pred)) :
                usedAliases(pred)[i] \in Bound(Snapshot(k)))
            => Res(k) # PredicateResultUncertain

\* C10 witness: a.x < b.x went from Uncertain on the empty binding and on
\* the binding of a alone to Positive once b was bound.
C10_Witness ==
    /\ pred = [left |-> Attr("a"), right |-> Attr("b"), op |-> opLt]
    /\ Evaluated = {0, 1, 2}
    /\ Res(0) = PredicateResultUncertain
    /\ Res(1) = PredicateResultUncertain
    /\ Res(2) = PredicateResultPositive

====
